---- MODULE Spec2Model ----
(***************************************************************************)
(* A model of analyzarr: the tag store kept by analyzer.py, app.py, api.py *)
(* and cleanup.py for one episode identity (one row of `episodes` and its  *)
(* rows of `episode_tags`), the analyzer runs that evaluate that identity, *)
(* and the mismatch ledger kept by sabnzbd_prequeue_script.py and read by  *)
(* checker.py.  Scores are in hundredths (0.5 is 50, 1.0 is 100).          *)
(***************************************************************************)
EXTENDS Integers, FiniteSets, Sequences, TLC

\* ------------------------------------------------------------------ bounds
\* Analyzer subprocesses that may be alive at once.
MaxAnalyzers == 2

Analyzers == 1..MaxAnalyzers

\* ------------------------------------------------------- program constants
\* analyzer.py: `if confidence >= 0.5` / `if confidence < 0.5`
MATCH_CONFIDENCE == 50
\* app.py: UPDATE episodes SET confidence = 1.0
OVERRIDE_CONFIDENCE == 100

MATCHED == "matched"
PROBLEMATIC == "problematic-episode"
OVERRIDE == "override"
TagNames == {MATCHED, PROBLEMATIC, OVERRIDE}

\* Values compute_confidence returns to check_episode: below the boundary,
\* exactly at it, and the substring rule's 1.0.
EvalScores == {49, 50, 100}

VARIABLES
    tags,           \* episode_tags rows of the identity: a set of tag names
    episode,        \* the identity's row of `episodes`
    sonarrHasFile,  \* Sonarr reports the episode with hasFile and episodeFileId
    pc,             \* per analyzer run: its position in check_episode
    epfile,         \* per analyzer run: check_episode's local `epfile`
    confidence,     \* per analyzer run: check_episode's local `confidence`
    cleanup,        \* cleanup_deleted: its position and its local live_keys
    cooldown,       \* watcher.py: (now - last_run) <= COOLDOWN_SECONDS
    mismatch_tracking,  \* the key's row of the table mismatch_tracking
    fpc,            \* per admission-filter invocation: its position in main()
    special_tag,    \* checker.py: the key carries SPECIAL_TAG_NAME
    chk,            \* checker.py check_episode: its position and its local `count`
    grabs,          \* checker.py: calls of grab_best_nzb made so far
    checkerThreshold,  \* checker.py MISMATCH_THRESHOLD, as its environment sets it
    input_text,     \* normalize_title: its argument `text`
    nt,             \* normalize_title: the values returned by successive applications
    series_title,   \* series["title"] of the episode whose keys are built
    ep,             \* its Sonarr episode: seasonNumber and episodeNumber
    scene,          \* the scene name of the episode's file
    keys,           \* per component: the keys it has built for the episode
    ep_title,       \* ep["title"]: the title Sonarr expects for the scored file
    file_scene,     \* the scene name of the scored file
    scored,         \* what check_episode hands to insert_episode for the file
    cleaned,        \* what cleanup.py's extract_scene_title returned for it
    releases,       \* what Sonarr returns for release?episodeId=...
    grab,           \* grab_best_nzb: the release it chose, its delete and its pushes
    jobenv,         \* jobs.py: the kind of a job and the environment of its worker
    job,            \* jobs[job_id]: its status and progress
    worker,         \* the job's worker thread: its position and locals
    library,        \* cleanup.py: per series what Sonarr holds of its episode
    db_keys,        \* cleanup.py: the keys of the rows of `episodes`
    cleanup_run     \* cleanup_deleted: the outcome of its requests and the keys it found

tagStoreVars == <<tags, episode, sonarrHasFile, pc, epfile, confidence, cleanup, cooldown>>
ledgerVars == <<mismatch_tracking, fpc, special_tag, chk, grabs, checkerThreshold>>
normalizeVars == <<input_text, nt>>
keyVars == <<series_title, ep, scene, keys>>
scoreVars == <<ep_title, file_scene, scored, cleaned>>
grabVars == <<releases, grab>>
jobVars == <<jobenv, job, worker>>
cleanupRunVars == <<library, db_keys, cleanup_run>>
vars ==
    <<tagStoreVars, ledgerVars, normalizeVars, keyVars, scoreVars, grabVars, jobVars,
      cleanupRunVars>>

\* What the actions of one part leave alone.
NotTagStore == <<ledgerVars, normalizeVars, keyVars, scoreVars, grabVars, jobVars,
    cleanupRunVars>>
NotLedger == <<tagStoreVars, normalizeVars, keyVars, scoreVars, grabVars, jobVars,
    cleanupRunVars>>
NotNormalize == <<tagStoreVars, ledgerVars, keyVars, scoreVars, grabVars, jobVars,
    cleanupRunVars>>
NotKeys == <<tagStoreVars, ledgerVars, normalizeVars, scoreVars, grabVars, jobVars,
    cleanupRunVars>>
NotScore == <<tagStoreVars, ledgerVars, normalizeVars, keyVars, grabVars, jobVars,
    cleanupRunVars>>
NotGrab == <<tagStoreVars, ledgerVars, normalizeVars, keyVars, scoreVars, jobVars,
    cleanupRunVars>>
NotJobs == <<tagStoreVars, ledgerVars, normalizeVars, keyVars, scoreVars, grabVars,
    cleanupRunVars>>
NotCleanupRun ==
    <<tagStoreVars, ledgerVars, normalizeVars, keyVars, scoreVars, grabVars, jobVars>>

NoEpisode == [exists |-> FALSE, confidence |-> 0]

\* Positions of an analyzer run that has returned from check_episode.
Returned == {"idle", "lookup_failed", "skipped", "done", "aborted"}
\* Positions of check_episode from insert_episode to its last tag write.
WriteSection == {"insert", "add_tag", "remove_tag"}
\* The tag-mutation section of check_episode: add_tag and remove_tag.
MutationSection == {"add_tag", "remove_tag"}

TypeOK ==
    /\ tags \subseteq TagNames
    /\ episode \in [exists : BOOLEAN, confidence : 0..100]
    /\ sonarrHasFile \in BOOLEAN
    /\ pc \in [Analyzers -> Returned \cup {"lookup", "override_check"} \cup WriteSection]
    /\ epfile \in [Analyzers -> {"unset", "None", "ok"}]
    /\ confidence \in [Analyzers -> {-1} \cup EvalScores]
    /\ cleanup \in [pc : {"idle", "fetched"}, live : BOOLEAN]
    /\ cooldown \in BOOLEAN

TagStoreInit ==
    /\ tags = {}
    /\ episode = NoEpisode
    /\ sonarrHasFile = TRUE
    /\ pc = [a \in Analyzers |-> "idle"]
    /\ epfile = [a \in Analyzers |-> "unset"]
    /\ confidence = [a \in Analyzers |-> -1]
    /\ cleanup = [pc |-> "idle", live |-> FALSE]
    /\ cooldown = FALSE

\* ------------------------------------------------------------ tag helpers
\* analyzer.py has_override_tag: SELECT 1 ... WHERE t.name = 'override'
\* A has_override_tag whose query never finds the row.
has_override_tag_blind(t) == FALSE
has_override_tag(t) == OVERRIDE \in t

\* analyzer.py add_tag: INSERT ... ON CONFLICT DO NOTHING; the tag set after it.
add_tag(t, name) == t \cup {name}
\* analyzer.py add_tag's return value: rowcount > 0.
add_tag_inserted(t, name) == name \notin t
\* analyzer.py remove_tag: DELETE ... WHERE tag name = name.
\* A remove_tag whose DELETE lacks the tag condition.
remove_tag_all(t, name) == {}
remove_tag(t, name) == t \ {name}

\* check_episode's two branches: the tag it adds and the tag it then removes.
\* A check_episode that tags a score of 1.0 as `override`.
TargetTag_override(conf) ==
    IF conf >= OVERRIDE_CONFIDENCE THEN OVERRIDE
    ELSE IF conf >= MATCH_CONFIDENCE THEN MATCHED ELSE PROBLEMATIC
TargetTag(conf) == IF conf >= MATCH_CONFIDENCE THEN MATCHED ELSE PROBLEMATIC
\* A check_episode whose second write always removes `matched`.
OtherTag_matched(conf) == MATCHED
OtherTag(conf) == IF conf >= MATCH_CONFIDENCE THEN PROBLEMATIC ELSE MATCHED

\* ------------------------------------------------- analyzer.py check_episode
\* jobs.py start_library_scan_job._worker / api.py replace_episode: a thread or
\* Popen launches `python3 /app/analyzer.py`, whose scan_library reaches the
\* episode.  No free slot: the model's bound on live subprocesses.
StartAnalyzer(a) ==
    /\ pc[a] \in Returned
    /\ pc' = [pc EXCEPT ![a] = "lookup"]
    /\ epfile' = [epfile EXCEPT ![a] = "unset"]
    /\ confidence' = [confidence EXCEPT ![a] = -1]

\* check_episode returns, or an exception leaves it: its locals are gone; the
\* position keeps the way it ended.
Return(a, outcome) ==
    /\ pc' = [pc EXCEPT ![a] = outcome]
    /\ epfile' = [epfile EXCEPT ![a] = IF outcome = "lookup_failed" THEN "None" ELSE "unset"]
    /\ confidence' = [confidence EXCEPT ![a] = -1]

\* Where check_episode goes after client.get("episodefile/..."): it returns on None.
\* A check_episode without the `if epfile is None: return`.
AfterLookup_continue(result) == "override_check"
AfterLookup(result) == IF result = "None" THEN "lookup_failed" ELSE "override_check"

\* check_episode lines 588-624: the hasFile guard and the episode-file lookup.
\* SonarrClient.request returns None on any exception.
Lookup(a) ==
    /\ pc[a] = "lookup"
    /\ IF ~sonarrHasFile
         THEN Return(a, "idle")
         ELSE \E result \in {"None", "ok"} :
                /\ epfile' = [epfile EXCEPT ![a] = result]
                /\ pc' = [pc EXCEPT ![a] = AfterLookup(result)]
                /\ UNCHANGED confidence
    /\ UNCHANGED <<tags, episode, sonarrHasFile, cleanup, cooldown>>
    /\ UNCHANGED NotTagStore

\* check_episode lines 625-628: with the override tag the run logs through the
\* undefined name `logger`: a NameError, caught by scan_library.  Nothing is
\* written either way.
OverrideCheck(a) ==
    /\ pc[a] = "override_check"
    /\ IF has_override_tag(tags)
         THEN Return(a, "skipped")
         ELSE /\ pc' = [pc EXCEPT ![a] = "insert"]
              /\ UNCHANGED <<epfile, confidence>>
    /\ UNCHANGED <<tags, episode, sonarrHasFile, cleanup, cooldown>>
    /\ UNCHANGED NotTagStore

\* check_episode lines 630-634: compute_confidence, then insert_episode (an upsert).
InsertEpisode(a) ==
    /\ pc[a] = "insert"
    /\ \E conf \in EvalScores :
         /\ confidence' = [confidence EXCEPT ![a] = conf]
         /\ episode' = [exists |-> TRUE, confidence |-> conf]
    /\ pc' = [pc EXCEPT ![a] = "add_tag"]
    /\ UNCHANGED <<tags, sonarrHasFile, epfile, cleanup, cooldown>>
    /\ UNCHANGED NotTagStore

\* check_episode lines 637-638 / 646-647: add_tag(key, target); the other tag is
\* removed only when the insert created a row.  episode_tags references
\* episodes(key): with the row gone the INSERT raises and the run is over.
AddTag(a) ==
    /\ pc[a] = "add_tag"
    /\ IF ~episode.exists
         THEN /\ Return(a, "aborted")
              /\ UNCHANGED tags
         ELSE /\ tags' = add_tag(tags, TargetTag(confidence[a]))
              /\ IF add_tag_inserted(tags, TargetTag(confidence[a]))
                   THEN /\ pc' = [pc EXCEPT ![a] = "remove_tag"]
                        /\ UNCHANGED <<epfile, confidence>>
                   ELSE Return(a, "done")
    /\ UNCHANGED <<episode, sonarrHasFile, cleanup, cooldown>>
    /\ UNCHANGED NotTagStore

\* check_episode lines 639 / 648: remove_tag(key, other), its own transaction.
RemoveTag(a) ==
    /\ pc[a] = "remove_tag"
    /\ tags' = remove_tag(tags, OtherTag(confidence[a]))
    /\ Return(a, "done")
    /\ UNCHANGED <<episode, sonarrHasFile, cleanup, cooldown>>
    /\ UNCHANGED NotTagStore

\* jobs.py: subprocess.run(cmd, timeout=ANALYZER_TIMEOUT) kills the analyzer
\* when the timeout expires, wherever it is.
AnalyzerKilled(a) ==
    /\ pc[a] \notin Returned
    /\ Return(a, "aborted")
    /\ UNCHANGED <<tags, episode, sonarrHasFile, cleanup, cooldown>>
    /\ UNCHANGED NotTagStore

CheckEpisodeStep(a) ==
    \/ Lookup(a)
    \/ OverrideCheck(a)
    \/ InsertEpisode(a)
    \/ AddTag(a)
    \/ RemoveTag(a)

\* ------------------------------------------------------ starting analyzer runs
\* jobs.py start_library_scan_job: the worker thread runs the analyzer.
StartLibraryScanJob ==
    /\ \E a \in Analyzers : StartAnalyzer(a)
    /\ UNCHANGED <<tags, episode, sonarrHasFile, cleanup, cooldown>>
    /\ UNCHANGED NotTagStore

\* watcher.py ChangeHandler.trigger_check: on_created and on_moved pass
\* ignore_cooldown=True; a scan job is started unless the cooldown is active.
TriggerCheck(ignore_cooldown) ==
    IF ignore_cooldown \/ ~cooldown
      THEN /\ cooldown' = TRUE
           /\ \E a \in Analyzers : StartAnalyzer(a)
           /\ UNCHANGED <<tags, episode, sonarrHasFile, cleanup>>
           /\ UNCHANGED NotTagStore
      ELSE UNCHANGED vars

\* watcher.py: time passes until (now - last_run) > COOLDOWN_SECONDS.
CooldownElapses ==
    /\ cooldown
    /\ cooldown' = FALSE
    /\ UNCHANGED <<tags, episode, sonarrHasFile, pc, epfile, confidence, cleanup>>
    /\ UNCHANGED NotTagStore

\* analyzer.py grab_best_nzb, as far as Sonarr's file goes: it returns early
\* (no search, no candidate, no title) or reaches step 7 and deletes the file.
grab_best_nzb(hasFile) == {hasFile, FALSE}

\* api.py replace_episode: 404 without the row; else grab_best_nzb, then
\* subprocess.Popen of the analyzer.
ReplaceEpisode ==
    /\ episode.exists
    /\ sonarrHasFile' \in grab_best_nzb(sonarrHasFile)
    /\ \E a \in Analyzers : StartAnalyzer(a)
    /\ UNCHANGED <<tags, episode, cleanup, cooldown>>
    /\ UNCHANGED NotTagStore

\* app.py auto_fix: grab_best_nzb alone.
AutoFix ==
    /\ sonarrHasFile' \in grab_best_nzb(sonarrHasFile)
    /\ UNCHANGED <<tags, episode, pc, epfile, confidence, cleanup, cooldown>>
    /\ UNCHANGED NotTagStore

\* Sonarr imports a release for the episode (what jobs.py polls the history for).
SonarrImport ==
    /\ ~sonarrHasFile
    /\ sonarrHasFile' = TRUE
    /\ UNCHANGED <<tags, episode, pc, epfile, confidence, cleanup, cooldown>>
    /\ UNCHANGED NotTagStore

\* ------------------------------------------------------------ manual actions
\* app.py override_episode, steps 2-4: delete 'problematic-episode', insert
\* 'matched' and 'override' (ON CONFLICT DO NOTHING).
\* An override_episode without its DELETE of `problematic-episode`.
OverrideTags_keep(t) == t \cup {MATCHED, OVERRIDE}
OverrideTags(t) == (t \ {PROBLEMATIC}) \cup {MATCHED, OVERRIDE}

\* app.py override_episode: one transaction, committed once at the end.  Without
\* the episodes row the INSERT into episode_tags violates the foreign key and
\* nothing is committed.
OverrideEpisode ==
    /\ IF episode.exists
         THEN /\ episode' = [episode EXCEPT !.confidence = OVERRIDE_CONFIDENCE]
              /\ tags' = OverrideTags(tags)
         ELSE UNCHANGED <<tags, episode>>
    /\ UNCHANGED <<sonarrHasFile, pc, epfile, confidence, cleanup, cooldown>>
    /\ UNCHANGED NotTagStore

\* api.py add_tag_to_episode: POST /api/episode/<key>/tags; the foreign key
\* rejects a tag for an identity with no episodes row.
ApiAddTag(name) ==
    /\ episode.exists
    /\ tags' = tags \cup {name}
    /\ UNCHANGED <<episode, sonarrHasFile, pc, epfile, confidence, cleanup, cooldown>>
    /\ UNCHANGED NotTagStore

\* api.py remove_tag_from_episode: DELETE /api/episode/<key>/tags/<tag>.
ApiRemoveTag(name) ==
    /\ tags' = tags \ {name}
    /\ UNCHANGED <<episode, sonarrHasFile, pc, epfile, confidence, cleanup, cooldown>>
    /\ UNCHANGED NotTagStore

\* ------------------------------------------------- cleanup.py cleanup_deleted
\* Whether the identity's key is in live_keys: `eps = get(...) or []` turns a
\* failed fetch into no episodes; an episode counts only with hasFile.
LiveKey(epsFetched, hasFile) == epsFetched /\ hasFile

\* cleanup_deleted lines 130-164: fetch the series, then each series' episodes.
\* Without the series list the run returns at once.
CleanupFetch ==
    /\ cleanup.pc = "idle"
    /\ \E seriesFetched \in BOOLEAN, epsFetched \in BOOLEAN :
         cleanup' = IF seriesFetched
                      THEN [pc |-> "fetched", live |-> LiveKey(epsFetched, sonarrHasFile)]
                      ELSE cleanup
    /\ UNCHANGED <<tags, episode, sonarrHasFile, pc, epfile, confidence, cooldown>>
    /\ UNCHANGED NotTagStore

\* cleanup_deleted lines 177-195: DELETE FROM episodes [WHERE key NOT IN live_keys];
\* episode_tags.episode_key is declared ON DELETE CASCADE (analyzer.py init_db).
CleanupDelete ==
    /\ cleanup.pc = "fetched"
    /\ IF cleanup.live
         THEN UNCHANGED <<tags, episode>>
         ELSE /\ episode' = NoEpisode
              /\ tags' = {}
    /\ cleanup' = [pc |-> "idle", live |-> FALSE]
    /\ UNCHANGED <<sonarrHasFile, pc, epfile, confidence, cooldown>>
    /\ UNCHANGED NotTagStore

\* ================================================= the mismatch ledger
\* sabnzbd_prequeue_script.py, line 20: MISMATCH_THRESHOLD default.
FILTER_MISMATCH_THRESHOLD == 3
\* checker.py, line 43: MISMATCH_THRESHOLD default.
CHECKER_MISMATCH_THRESHOLD == 5
\* checker.py reads MISMATCH_THRESHOLD from its environment; the filter's line 20
\* asks for the two values to match.
CheckerThresholds == {CHECKER_MISMATCH_THRESHOLD, FILTER_MISMATCH_THRESHOLD}

\* Admission-filter invocations (one per queued NZB) that may be alive at once.
MaxFilters == 2
Filters == 1..MaxFilters

NoTracking == [exists |-> FALSE, count |-> 0]

\* An invocation of main() that has responded.
Responded == {"idle", "passed", "matched", "accepted", "rejected"}

LedgerTypeOK ==
    /\ mismatch_tracking \in [exists : BOOLEAN, count : Nat]
    /\ fpc \in [Filters -> Responded \cup {"mismatch", "inc"}]
    /\ special_tag \in BOOLEAN
    /\ chk \in [pc : {"idle", "matched", "decide", "below", "escalated", "raised"}, count : Nat]
    /\ grabs \in Nat
    /\ checkerThreshold \in CheckerThresholds

LedgerInit ==
    /\ mismatch_tracking = NoTracking
    /\ fpc = [f \in Filters |-> "idle"]
    /\ special_tag = FALSE
    /\ chk = [pc |-> "idle", count |-> 0]
    /\ grabs = 0
    /\ checkerThreshold \in CheckerThresholds

\* sabnzbd_prequeue_script.py get_count / checker.py get_mismatch_count:
\* `row[0] if row else 0`.
get_count(row) == IF row.exists THEN row.count ELSE 0

\* sabnzbd_prequeue_script.py inc_count: INSERT ... VALUES (key, 1, now)
\* ON CONFLICT (key) DO UPDATE SET count = count + 1.
\* An inc_count whose upsert is ON CONFLICT DO NOTHING.
inc_count_nothing(row) ==
    IF row.exists THEN row ELSE [exists |-> TRUE, count |-> 1]
inc_count(row) ==
    IF row.exists THEN [row EXCEPT !.count = row.count + 1]
                  ELSE [exists |-> TRUE, count |-> 1]

\* sabnzbd_prequeue_script.py reset_count: UPDATE ... SET count = 0 WHERE key = ...
reset_count(row) == IF row.exists THEN [row EXCEPT !.count = 0] ELSE row

\* An AtThreshold that accepts only above the threshold.
AtThreshold_above(row) == get_count(row) > FILTER_MISMATCH_THRESHOLD

\* main() line 164: `if get_count(key) >= MISMATCH_THRESHOLD` accepts.
AtThreshold(row) == get_count(row) >= FILTER_MISMATCH_THRESHOLD

\* main() lines 98-161: a movie, a name with no SxxEyy, or a failed Sonarr lookup
\* passes (respond 1); a title match resets the counter and accepts; anything
\* else is a detected mismatch.
FilterStart(f) ==
    /\ fpc[f] \in Responded
    /\ \E kind \in {"pass", "match", "mismatch"} :
         CASE kind = "pass" ->
                /\ fpc' = [fpc EXCEPT ![f] = "passed"]
                /\ UNCHANGED mismatch_tracking
           [] kind = "match" ->
                /\ mismatch_tracking' = reset_count(mismatch_tracking)
                /\ fpc' = [fpc EXCEPT ![f] = "matched"]
           [] kind = "mismatch" ->
                /\ fpc' = [fpc EXCEPT ![f] = "mismatch"]
                /\ UNCHANGED mismatch_tracking
    /\ UNCHANGED <<special_tag, chk, grabs, checkerThreshold>>
    /\ UNCHANGED NotLedger

\* SABnzbd running its pre-queue script for one NZB at a time: main() starts
\* when every earlier invocation has responded.
SequentialFilterStart(f) ==
    /\ \A g \in Filters : fpc[g] \in Responded
    /\ FilterStart(f)

\* main() lines 163-166: read the counter; at the threshold accept (respond 1).
FilterGetCount(f) ==
    /\ fpc[f] = "mismatch"
    /\ fpc' = [fpc EXCEPT ![f] = IF AtThreshold(mismatch_tracking) THEN "accepted" ELSE "inc"]
    /\ UNCHANGED <<mismatch_tracking, special_tag, chk, grabs, checkerThreshold>>
    /\ UNCHANGED NotLedger

\* main() lines 168-171: inc_count in a transaction of its own, then reject
\* (respond 2).
FilterInc(f) ==
    /\ fpc[f] = "inc"
    /\ mismatch_tracking' = inc_count(mismatch_tracking)
    /\ fpc' = [fpc EXCEPT ![f] = "rejected"]
    /\ UNCHANGED <<special_tag, chk, grabs, checkerThreshold>>
    /\ UNCHANGED NotLedger

\* ------------------------------------------------- checker.py check_episode
\* checker.py with_conn (line 83) passes the pooled connection as one more
\* leading argument.
WITH_CONN_INJECTED == 1
\* checker.py line 155: add_tag calls ensure_tag(conn, tag_name).
ENSURE_TAG_CALL_ARGS == 2
\* checker.py line 144: def ensure_tag(conn, name), itself wrapped by with_conn.
ENSURE_TAG_PARAMS == 2

\* The call of the wrapped ensure_tag raises TypeError when the arguments that
\* reach the function are not the ones it declares.
ensure_tag_raises == WITH_CONN_INJECTED + ENSURE_TAG_CALL_ARGS # ENSURE_TAG_PARAMS

\* checker.py add_tag: ensure_tag first, then INSERT ... ON CONFLICT DO NOTHING;
\* returns whether a row was inserted.
checker_add_tag(tagged) ==
    IF ensure_tag_raises
      THEN [raised |-> TRUE, inserted |-> FALSE, tagged |-> tagged]
      ELSE [raised |-> FALSE, inserted |-> ~tagged, tagged |-> TRUE]

\* check_episode lines 242-282: on a title match remove the tag and return; on a
\* mismatch read the external count.
CheckerStart ==
    /\ chk.pc \notin {"decide"}
    /\ \E match \in BOOLEAN :
         IF match
           THEN /\ special_tag' = FALSE
                /\ chk' = [pc |-> "matched", count |-> 0]
           ELSE /\ chk' = [pc |-> "decide", count |-> get_count(mismatch_tracking)]
                /\ UNCHANGED special_tag
    /\ UNCHANGED <<mismatch_tracking, fpc, grabs, checkerThreshold>>
    /\ UNCHANGED NotLedger

\* check_episode lines 284-290: at the threshold add the tag and, when it was
\* newly added, call grab_best_nzb.  An exception ends the evaluation
\* (scan_library logs it).
CheckerDecide ==
    /\ chk.pc = "decide"
    /\ IF chk.count >= checkerThreshold
         THEN LET r == checker_add_tag(special_tag)
              IN  /\ special_tag' = r.tagged
                  /\ grabs' = IF r.inserted THEN grabs + 1 ELSE grabs
                  /\ chk' = [pc |-> IF r.raised THEN "raised" ELSE "escalated", count |-> 0]
         ELSE /\ chk' = [pc |-> "below", count |-> 0]
              /\ UNCHANGED <<special_tag, grabs>>
    /\ UNCHANGED <<mismatch_tracking, fpc, checkerThreshold>>
    /\ UNCHANGED NotLedger

\* ====================================================== text primitives
\* Python str values are TLA+ strings; s[i] is Char(s, i + 1).
Char(s, i) == SubSeq(s, i, i)
CharsOf(s) == {Char(s, i) : i \in 1..Len(s)}

ASCII_UPPERCASE == "ABCDEFGHIJKLMNOPQRSTUVWXYZ"
ASCII_LOWERCASE == "abcdefghijklmnopqrstuvwxyz"
ASCII_DIGITS == "0123456789"
UpperChars == CharsOf(ASCII_UPPERCASE)
LowerChars == CharsOf(ASCII_LOWERCASE)
DigitChars == CharsOf(ASCII_DIGITS)

\* str.isalnum / the regex class \w (alphanumerics and the underscore), on one
\* ASCII character.
char_isalnum(c) == c \in UpperChars \cup LowerChars \cup DigitChars
IsWordChar(c) == char_isalnum(c) \/ c = "_"

\* str.lower on one ASCII character.
char_lower(c) ==
    IF c \in UpperChars
      THEN Char(ASCII_LOWERCASE, CHOOSE i \in 1..Len(ASCII_UPPERCASE) : Char(ASCII_UPPERCASE, i) = c)
      ELSE c

RECURSIVE str_lower(_)
str_lower(s) == IF s = "" THEN "" ELSE char_lower(Char(s, 1)) \o str_lower(Tail(s))

\* str.isdigit: non-empty and every character a digit.
str_isdigit(s) == s # "" /\ \A i \in 1..Len(s) : Char(s, i) \in DigitChars

\* str.islower: at least one cased character and no uppercase one.
str_islower(s) ==
    /\ \E i \in 1..Len(s) : Char(s, i) \in LowerChars
    /\ \A i \in 1..Len(s) : Char(s, i) \notin UpperChars

\* `a in b` on strings.
IsSubstring(a, b) ==
    \E i \in 1..(Len(b) - Len(a) + 1) : SubSeq(b, i, i + Len(a) - 1) = a

\* The regex assertion \b before position i (1-based; Len + 1 is the end).
WordCharAt(s, i) == i >= 1 /\ i <= Len(s) /\ IsWordChar(Char(s, i))
AtWordBoundary(s, i) == WordCharAt(s, i - 1) # WordCharAt(s, i)

\* A literal matched at position i under (?i).
MatchesAt(s, i, lit) ==
    /\ i + Len(lit) - 1 <= Len(s)
    /\ str_lower(SubSeq(s, i, i + Len(lit) - 1)) = lit

\* The end of the longest run of digits that starts at position i (i - 1 if none).
RECURSIVE DigitsEnd(_, _)
DigitsEnd(s, i) ==
    IF i <= Len(s) /\ Char(s, i) \in DigitChars THEN DigitsEnd(s, i + 1) ELSE i - 1

\* The end of the longest run of whitespace that starts at position i.
RECURSIVE SpacesEnd(_, _)
SpacesEnd(s, i) ==
    IF i <= Len(s) /\ Char(s, i) = " " THEN SpacesEnd(s, i + 1) ELSE i - 1

\* str(n) for a natural number.
RECURSIVE int_str(_)
int_str(n) ==
    IF n < 10 THEN Char(ASCII_DIGITS, n + 1)
    ELSE int_str(n \div 10) \o Char(ASCII_DIGITS, (n % 10) + 1)

\* str.replace of one character by a string.
RECURSIVE str_replace(_, _, _)
str_replace(s, c, by) ==
    IF s = "" THEN ""
    ELSE (IF Char(s, 1) = c THEN by ELSE Char(s, 1)) \o str_replace(Tail(s), c, by)

\* ------------------------------------------- analyzer.py normalize_title
\* _NUMWORD with word2number's american_number_system values.  The scale words
\* thousand and million are matched by NUM_RE as well; word2number handles them
\* on a path of its own.
NumberWords ==
    { <<"zero", 0>>, <<"one", 1>>, <<"two", 2>>, <<"three", 3>>, <<"four", 4>>,
      <<"five", 5>>, <<"six", 6>>, <<"seven", 7>>, <<"eight", 8>>, <<"nine", 9>>,
      <<"ten", 10>>, <<"eleven", 11>>, <<"twelve", 12>>, <<"thirteen", 13>>,
      <<"fourteen", 14>>, <<"fifteen", 15>>, <<"sixteen", 16>>, <<"seventeen", 17>>,
      <<"eighteen", 18>>, <<"nineteen", 19>>, <<"twenty", 20>>, <<"thirty", 30>>,
      <<"forty", 40>>, <<"fifty", 50>>, <<"sixty", 60>>, <<"seventy", 70>>,
      <<"eighty", 80>>, <<"ninety", 90>>, <<"hundred", 100>>,
      <<"thousand", 1000>>, <<"million", 1000000>> }

\* Ends of one number-word matched at position i.
WordEnds(s, i) == {i + Len(w[1]) - 1 : w \in {v \in NumberWords : MatchesAt(s, i, v[1])}}

\* Ends of (?:word)(?:[ \-](?:word))* matched at position i.
RECURSIVE RunEnds(_, _)
RunEnds(s, i) ==
    UNION { {e} \cup (IF e + 1 <= Len(s) /\ Char(s, e + 1) \in {" ", "-"}
                        THEN RunEnds(s, e + 2) ELSE {})
            : e \in WordEnds(s, i) }

\* NUM_RE matched at position i: the end of the match, 0 when there is none.
\* The star is greedy, and both ends are at a \b.
NumReEnd(s, i) ==
    LET ends == {e \in RunEnds(s, i) : AtWordBoundary(s, e + 1)}
    IN  IF AtWordBoundary(s, i) /\ ends # {}
          THEN CHOOSE e \in ends : \A d \in ends : d <= e
          ELSE 0

\* The values of the number-words of a matched phrase, in order.
RECURSIVE PhraseValues(_, _)
PhraseValues(s, i) ==
    IF i > Len(s) THEN <<>>
    ELSE LET w == CHOOSE v \in NumberWords :
                    /\ MatchesAt(s, i, v[1])
                    /\ LET e == i + Len(v[1])
                       IN  e > Len(s) \/ Char(s, e) \in {" ", "-"}
         IN  <<w[2]>> \o PhraseValues(s, i + Len(w[1]) + 1)

\* word2number number_formation, which word_to_num applies to a phrase without
\* thousand, million, billion or point.
number_formation(numbers) ==
    IF Len(numbers) = 4 THEN numbers[1] * numbers[2] + numbers[3] + numbers[4]
    ELSE IF Len(numbers) = 3 THEN numbers[1] * numbers[2] + numbers[3]
    ELSE IF Len(numbers) = 2
      THEN (IF 100 \in {numbers[1], numbers[2]} THEN numbers[1] * numbers[2]
                                                ELSE numbers[1] + numbers[2])
    ELSE numbers[1]

\* collapse_numbers._repl: str(w2n.word_to_num(phrase)).
collapse_repl(phrase) == int_str(number_formation(PhraseValues(phrase, 1)))

\* collapse_numbers: NUM_RE.sub(_repl, text), scanning from position i.
RECURSIVE collapse_numbers_from(_, _)
collapse_numbers_from(text, i) ==
    IF i > Len(text) THEN ""
    ELSE LET e == NumReEnd(text, i)
         IN  IF e > 0
               THEN collapse_repl(SubSeq(text, i, e)) \o collapse_numbers_from(text, e + 1)
               ELSE Char(text, i) \o collapse_numbers_from(text, i + 1)

collapse_numbers(text) == collapse_numbers_from(text, 1)

\* r'(?i)\b(?:pt|part)[\.#]?\s*(\d+)\b' matched at position i: the positions of
\* the digit group, <<0, 0>> when there is no match.
PartReGroup(s, i) ==
    LET word == IF MatchesAt(s, i, "pt") THEN 2 ELSE IF MatchesAt(s, i, "part") THEN 4 ELSE 0
        p == i + word
        q == IF p <= Len(s) /\ Char(s, p) \in {".", "#"} THEN p + 1 ELSE p
        d == SpacesEnd(s, q) + 1
        e == DigitsEnd(s, d)
    IN  IF AtWordBoundary(s, i) /\ word > 0 /\ e >= d /\ AtWordBoundary(s, e + 1)
          THEN <<d, e>> ELSE <<0, 0>>

\* re.sub of that pattern by group 1, scanning from position i.
RECURSIVE collapse_part_from(_, _)
collapse_part_from(text, i) ==
    IF i > Len(text) THEN ""
    ELSE LET g == PartReGroup(text, i)
         IN  IF g[1] > 0
               THEN SubSeq(text, g[1], g[2]) \o collapse_part_from(text, g[2] + 1)
               ELSE Char(text, i) \o collapse_part_from(text, i + 1)

\* unicodedata.normalize("NFKD", text): ASCII characters have no decomposition.
nfkd(text) == text

\* "".join(c for c in text if c.isalnum())
RECURSIVE keep_alnum(_)
keep_alnum(s) ==
    IF s = "" THEN ""
    ELSE (IF char_isalnum(Char(s, 1)) THEN Char(s, 1) ELSE "") \o keep_alnum(Tail(s))

\* analyzer.py normalize_title, lines 344-354.
normalize_title(text) ==
    IF text = "" THEN ""
    ELSE str_lower(keep_alnum(nfkd(
             collapse_part_from(collapse_numbers(str_replace(text, "&", "and")), 1))))

\* ------------------------------------------------ normalize_title applied
\* Length of the texts normalize_title is applied to.
MaxTextLen == 4
\* Their characters: letters that spell number-words and `pt`, a digit, a
\* separator and the ampersand.
TextChars == {"o", "n", "e", "P", "t", "1", "-", "&"}

RECURSIVE Texts(_)
Texts(n) ==
    IF n = 0 THEN {""}
    ELSE Texts(n - 1) \cup {t \o c : t \in Texts(n - 1), c \in TextChars}

NormalizeQuiet == input_text = "" /\ nt = <<>>

NormalizeInit == input_text \in Texts(MaxTextLen) /\ nt = <<>>

\* normalize_title(text), then normalize_title of what it returned.
NormalizeTitle ==
    /\ Len(nt) < 2
    /\ nt' = Append(nt, normalize_title(IF nt = <<>> THEN input_text ELSE nt[Len(nt)]))
    /\ UNCHANGED input_text
    /\ UNCHANGED NotNormalize

\* ------------------------------------------------------ identity keys
\* checker.py normalize_title, lines 231-236.
checker_normalize_title(text) ==
    IF text = "" THEN ""
    ELSE str_lower(keep_alnum(nfkd(str_replace(text, "&", "and"))))

\* sabnzbd_prequeue_script.py normalize, lines 88-90.
normalize(text) == str_lower(keep_alnum(str_replace(nfkd(text), "&", "and")))

\* os.path.basename: what follows the last "/".
basename(path) ==
    LET slashes == {i \in 1..Len(path) : Char(path, i) = "/"}
    IN  IF slashes = {} THEN path
        ELSE SubSeq(path, (CHOOSE i \in slashes : \A j \in slashes : j <= i) + 1, Len(path))

\* int() of a string of digits.
RECURSIVE str_int(_)
str_int(s) ==
    IF s = "" THEN 0
    ELSE 10 * str_int(SubSeq(s, 1, Len(s) - 1))
         + (CHOOSE d \in 0..9 : Char(ASCII_DIGITS, d + 1) = Char(s, Len(s)))

\* The format spec {n:02d}.
format_02d(n) == IF n < 10 THEN "0" \o int_str(n) ELSE int_str(n)

\* [sS](\d{2})[eE](\d{2}) matched at position i.
SxxEyyAt(s, i) ==
    /\ i + 5 <= Len(s)
    /\ Char(s, i) \in {"s", "S"}
    /\ str_isdigit(SubSeq(s, i + 1, i + 2))
    /\ Char(s, i + 3) \in {"e", "E"}
    /\ str_isdigit(SubSeq(s, i + 4, i + 5))

\* re.search of that pattern: the position of the first match, 0 when none.
SxxEyySearch(s) ==
    LET at == {i \in 1..Len(s) : SxxEyyAt(s, i)}
    IN  IF at = {} THEN 0 ELSE CHOOSE i \in at : \A j \in at : i <= j

\* analyzer.py check_episode, lines 599-602: the key from the episode's numbers.
analyzer_key(title, e) ==
    "series::" \o normalize_title(title)
        \o "::S" \o format_02d(e.seasonNumber) \o "E" \o format_02d(e.episodeNumber)

\* checker.py check_episode, lines 251-263: the numbers parsed from the scene
\* name when it has an SxxEyy, the episode's numbers otherwise.
checker_key(title, e, raw) ==
    LET m == SxxEyySearch(basename(raw))
        parsed_season == IF m > 0 THEN str_int(SubSeq(basename(raw), m + 1, m + 2))
                                  ELSE e.seasonNumber
        parsed_epnum == IF m > 0 THEN str_int(SubSeq(basename(raw), m + 4, m + 5))
                                 ELSE e.episodeNumber
    IN  "series::" \o checker_normalize_title(title)
            \o "::S" \o format_02d(parsed_season) \o "E" \o format_02d(parsed_epnum)

\* sabnzbd_prequeue_script.py main, line 110: (.+?)[ ._\-]+[sS](\d{2})[eE](\d{2})
\* searched in nzbname: the end of group 1 and the position of the marker,
\* <<0, 0>> when there is no match.  The group is lazy: its shortest end wins.
NzbSeparators == {" ", ".", "_", "-"}
NzbSearch(nzbname) ==
    LET ends == {j \in 1..Len(nzbname) :
                   \E k \in (j + 1)..Len(nzbname) :
                      /\ \A m \in (j + 1)..k : Char(nzbname, m) \in NzbSeparators
                      /\ SxxEyyAt(nzbname, k + 1)}
        j == CHOOSE x \in ends : \A y \in ends : x <= y
        k == CHOOSE x \in (j + 1)..Len(nzbname) :
               /\ \A m \in (j + 1)..x : Char(nzbname, m) \in NzbSeparators
               /\ SxxEyyAt(nzbname, x + 1)
    IN  IF ends = {} THEN <<0, 0>> ELSE <<j, k + 1>>

\* main, lines 114-115: the key from the groups of the match.
filter_key(nzbname) ==
    LET g == NzbSearch(nzbname)
    IN  "series::" \o normalize(SubSeq(nzbname, 1, g[1]))
            \o "::S" \o SubSeq(nzbname, g[2] + 1, g[2] + 2)
            \o "E" \o SubSeq(nzbname, g[2] + 4, g[2] + 5)

\* main, lines 128-152: the release resolves to the show whose normalized title
\* equals that of group 1 and to the episode with the numbers of the marker.
filter_resolves(nzbname, title, e) ==
    LET g == NzbSearch(nzbname)
    IN  /\ g[1] > 0
        /\ normalize(title) = normalize(SubSeq(nzbname, 1, g[1]))
        /\ e.seasonNumber = str_int(SubSeq(nzbname, g[2] + 1, g[2] + 2))
        /\ e.episodeNumber = str_int(SubSeq(nzbname, g[2] + 4, g[2] + 5))

\* Series, episodes and scene names the keys are built for.
SeriesTitles == {"Show", "The One"}
Episodes == [seasonNumber : {1}, episodeNumber : {2, 3}]
SceneNames ==
    { "Show.S01E02.Pilot.720p", "Show.S01E03.Pilot.720p", "Show.Pilot.mkv",
      "tv/s01e01/Show - S01E02 - Pilot", "The.One.S01E02.Pilot", "the_one s01e03" }
Components == {"analyzer", "checker", "filter"}

KeysQuiet ==
    /\ series_title = ""
    /\ ep = [seasonNumber |-> 0, episodeNumber |-> 0]
    /\ scene = ""
    /\ keys = [c \in Components |-> {}]

KeysInit ==
    /\ series_title \in SeriesTitles
    /\ ep \in Episodes
    /\ scene \in SceneNames
    /\ keys = [c \in Components |-> {}]

\* The episode's file is renamed or replaced: Sonarr reports another scene name
\* for the same episode.
RenameFile ==
    /\ \E name \in SceneNames : name # scene /\ scene' = name
    /\ UNCHANGED <<series_title, ep, keys>>
    /\ UNCHANGED NotKeys

\* analyzer.py check_episode builds the episode's key.
AnalyzerBuildsKey ==
    /\ keys' = [keys EXCEPT !["analyzer"] = @ \cup {analyzer_key(series_title, ep)}]
    /\ UNCHANGED <<series_title, ep, scene>>
    /\ UNCHANGED NotKeys

\* checker.py check_episode builds the episode's key.
CheckerBuildsKey ==
    /\ keys' = [keys EXCEPT !["checker"] = @ \cup {checker_key(series_title, ep, scene)}]
    /\ UNCHANGED <<series_title, ep, scene>>
    /\ UNCHANGED NotKeys

\* The admission filter builds the key of a release that resolves to the episode.
FilterBuildsKey ==
    /\ \E nzbname \in SceneNames :
         /\ filter_resolves(nzbname, series_title, ep)
         /\ keys' = [keys EXCEPT !["filter"] = @ \cup {filter_key(nzbname)}]
    /\ UNCHANGED <<series_title, ep, scene>>
    /\ UNCHANGED NotKeys

\* ------------------------------------------------- scene-title extraction
\* str.strip of spaces.
RECURSIVE str_strip(_)
str_strip(s) ==
    IF s # "" /\ Char(s, 1) = " " THEN str_strip(Tail(s))
    ELSE IF s # "" /\ Char(s, Len(s)) = " " THEN str_strip(SubSeq(s, 1, Len(s) - 1))
    ELSE s

\* The separator class [.\s_-] of cleanup.py (whitespace is the space here).
TokenSeparators == {".", "-", "_", " "}

\* The end of the longest run of separators that starts at position i.
RECURSIVE SeparatorsEnd(_, _)
SeparatorsEnd(s, i) ==
    IF i <= Len(s) /\ Char(s, i) \in TokenSeparators THEN SeparatorsEnd(s, i + 1) ELSE i - 1

\* cleanup.py line 88: (?i)\bSeason[.\s_-]*\d+[.\s_-]*Ep[.\s_-]*(\d+)\b matched
\* at position i: the positions of group 1, <<0, 0>> when there is no match.
SeasonEpGroup(s, i) ==
    LET a == SeparatorsEnd(s, i + 6) + 1
        b == DigitsEnd(s, a)
        c == SeparatorsEnd(s, b + 1) + 1
        d == SeparatorsEnd(s, c + 2) + 1
        e == DigitsEnd(s, d)
    IN  IF /\ AtWordBoundary(s, i)
           /\ MatchesAt(s, i, "season")
           /\ b >= a
           /\ MatchesAt(s, c, "ep")
           /\ e >= d
           /\ AtWordBoundary(s, e + 1)
          THEN <<d, e>> ELSE <<0, 0>>

\* cleanup.py lines 87-91: re.sub of that pattern by "Episode \1".
RECURSIVE collapse_season_ep_from(_, _)
collapse_season_ep_from(s, i) ==
    IF i > Len(s) THEN ""
    ELSE LET g == SeasonEpGroup(s, i)
         IN  IF g[1] > 0
               THEN "Episode " \o SubSeq(s, g[1], g[2]) \o collapse_season_ep_from(s, g[2] + 1)
               ELSE Char(s, i) \o collapse_season_ep_from(s, i + 1)

\* re.split(r"[.\-_\s]+", s): the pieces between runs of separators, the empty
\* pieces at the ends included.
RECURSIVE split_from(_, _, _)
split_from(s, i, piece) ==
    IF i > Len(s) THEN <<piece>>
    ELSE IF Char(s, i) \in TokenSeparators
      THEN <<piece>> \o split_from(s, SeparatorsEnd(s, i) + 1, "")
      ELSE split_from(s, i + 1, piece \o Char(s, i))

re_split(s) == split_from(s, 1, "")

\* " ".join(parts)
RECURSIVE str_join(_)
str_join(parts) ==
    IF parts = <<>> THEN ""
    ELSE IF Len(parts) = 1 THEN parts[1]
    ELSE parts[1] \o " " \o str_join(Tail(parts))

\* cleanup.py END_MARKERS, lines 74-79.
END_MARKERS ==
    { "1080p", "720p", "2160p", "480p",
      "remux", "bluray", "web-dl", "webrip", "hdrip", "hdtv",
      "dts", "ddp51", "ac3", "vc1", "x264", "h264", "hevc",
      "amzn", "nf", "max", "dsnp", "btn", "kenobi", "asmofuscated" }

\* cleanup.py line 98: (?i)^S\d{2}E\d{2}$ on a token.
IsSxxEyyToken(tok) == Len(tok) = 6 /\ SxxEyyAt(tok, 1)

\* cleanup.py line 104: an end-marker or ^\d{3,4}p$ on the lowercased token.
IsEndMarker(w) ==
    LET low == str_lower(w)
    IN  \/ low \in END_MARKERS
        \/ /\ Len(low) \in {4, 5}
           /\ str_isdigit(SubSeq(low, 1, Len(low) - 1))
           /\ Char(low, Len(low)) = "p"

\* cleanup.py line 108: the tokens kept as title parts.
IsTitlePart(w) ==
    \/ /\ Len(w) > 1
       /\ Char(w, 1) \in UpperChars
       /\ str_islower(Tail(w))
    \/ str_isdigit(w)

\* cleanup.py lines 101-110: the title parts among the tokens up to the first
\* end-marker.
RECURSIVE title_parts(_)
title_parts(tokens) ==
    IF tokens = <<>> \/ IsEndMarker(Head(tokens)) THEN <<>>
    ELSE (IF IsTitlePart(Head(tokens)) THEN <<Head(tokens)>> ELSE <<>>)
         \o title_parts(Tail(tokens))

\* str.replace of runs of [.\-_] by one space (cleanup.py line 116).
RECURSIVE separators_to_space(_, _)
separators_to_space(s, i) ==
    IF i > Len(s) THEN ""
    ELSE IF Char(s, i) \in {".", "-", "_"}
      THEN " " \o separators_to_space(s,
                     (CHOOSE e \in i..Len(s) :
                        /\ \A m \in i..e : Char(s, m) \in {".", "-", "_"}
                        /\ (e = Len(s) \/ Char(s, e + 1) \notin {".", "-", "_"})) + 1)
      ELSE Char(s, i) \o separators_to_space(s, i + 1)

\* cleanup.py extract_scene_title, lines 81-116.
cleanup_extract_scene_title(scene_name) ==
    LET collapsed == collapse_season_ep_from(scene_name, 1)
        tokens == re_split(collapsed)
        marks == {i \in 1..Len(tokens) : IsSxxEyyToken(tokens[i])}
        first == CHOOSE i \in marks : \A j \in marks : i <= j
    IN  IF marks = {} THEN separators_to_space(collapsed, 1)
        ELSE str_join(title_parts(SubSeq(tokens, first + 1, Len(tokens))))

\* analyzer.py extract_scene_title, lines 451-459: guessit's `title` ('' when it
\* has none), stripped.  guess_title is what guessit returned.
extract_scene_title(guess_title) == str_strip(guess_title)

\* What guessit may return as the title of a scene name: nothing, or a run of
\* its tokens joined by spaces.
GuessTitles(scene_name) ==
    LET tokens == re_split(scene_name)
    IN  {""} \cup {str_join(SubSeq(tokens, i, j)) : i \in 1..Len(tokens), j \in 1..Len(tokens)}

\* ------------------------------------------------------- the confidence
\* _HAS_EPISODE_RE: (?i)S\d{1,2}E\d{1,2} matched at position i.
HasSxEyAt(s, i) ==
    /\ MatchesAt(s, i, "s")
    /\ \E d \in {1, 2} :
         /\ i + d <= Len(s) /\ str_isdigit(SubSeq(s, i + 1, i + d))
         /\ MatchesAt(s, i + d + 1, "e")
         /\ i + d + 2 <= Len(s) /\ Char(s, i + d + 2) \in DigitChars

\* _HAS_EPISODE_RE: (?i)\d{1,2}x\d{1,2} matched at position i.
HasNxMAt(s, i) ==
    /\ i <= Len(s) /\ Char(s, i) \in DigitChars
    /\ \E d \in {1, 2} :
         /\ i + d - 1 <= Len(s) /\ str_isdigit(SubSeq(s, i, i + d - 1))
         /\ MatchesAt(s, i + d, "x")
         /\ i + d + 1 <= Len(s) /\ Char(s, i + d + 1) \in DigitChars

\* _HAS_EPISODE_RE: (?i)\bSeason\s*\d+\s*Episode\s*\d+\b matched at position i.
HasSeasonEpisodeAt(s, i) ==
    LET a == SpacesEnd(s, i + 6) + 1
        b == DigitsEnd(s, a)
        c == SpacesEnd(s, b + 1) + 1
        d == SpacesEnd(s, c + 7) + 1
        e == DigitsEnd(s, d)
    IN  /\ AtWordBoundary(s, i)
        /\ MatchesAt(s, i, "season")
        /\ b >= a
        /\ MatchesAt(s, c, "episode")
        /\ e >= d
        /\ AtWordBoundary(s, e + 1)

\* analyzer.py has_season_episode, lines 363-378.
has_season_episode(scene_name) ==
    \E i \in 1..Len(scene_name) :
        HasSxEyAt(scene_name, i) \/ HasNxMAt(scene_name, i) \/ HasSeasonEpisodeAt(scene_name, i)

\* is_missing_title without its rule 3: a title of the form Part<digits> counts
\* as a real title.
is_missing_title_no_part(guess_title, expected_title) ==
    LET raw == str_strip(extract_scene_title(guess_title))
        expected_norm == normalize_title(expected_title)
    IN  IF raw = "" THEN TRUE
        ELSE IF str_isdigit(raw)
          THEN ~(str_isdigit(expected_norm) /\ raw = expected_norm)
        ELSE FALSE

\* analyzer.py is_missing_title, lines 380-407.  guess_title is what guessit
\* returned for the scene name.
is_missing_title(guess_title, expected_title) ==
    LET raw == str_strip(extract_scene_title(guess_title))
        expected_norm == normalize_title(expected_title)
    IN  IF raw = "" THEN TRUE
        ELSE IF str_isdigit(raw)
          THEN ~(str_isdigit(expected_norm) /\ raw = expected_norm)
        ELSE MatchesAt(raw, 1, "part") /\ str_isdigit(SubSeq(raw, 5, Len(raw)))

\* compute_confidence lines 444-449 in hundredths: round(0.8 * ratio / 100, 2),
\* for the ratio token_sort_ratio returned.
BASE_CONF == 80
\* compute_confidence line 440: the score of a file whose title is missing.
MISSING_TITLE_CONF == 80

\* title_conf without the division of the ratio by 100.
title_conf_unscaled(ratio) == BASE_CONF * ratio

title_conf(ratio) == (BASE_CONF * ratio + 50) \div 100

\* compute_confidence with the marker rule evaluated before the substring rule.
compute_confidence_marker_first(expected_title, scene_name, guess_title, ratio) ==
    IF ~has_season_episode(scene_name) THEN 0
    ELSE IF IsSubstring(normalize_title(expected_title), normalize_title(scene_name)) THEN 100
    ELSE IF is_missing_title(guess_title, expected_title) THEN MISSING_TITLE_CONF
    ELSE title_conf(ratio)

\* compute_confidence without the marker rule.
compute_confidence_no_marker_rule(expected_title, scene_name, guess_title, ratio) ==
    IF IsSubstring(normalize_title(expected_title), normalize_title(scene_name)) THEN 100
    ELSE IF is_missing_title(guess_title, expected_title) THEN MISSING_TITLE_CONF
    ELSE title_conf(ratio)

\* analyzer.py compute_confidence, lines 409-449, in hundredths.  guess_title is
\* what guessit returned for scene_name, ratio what token_sort_ratio returned.
compute_confidence(expected_title, scene_name, guess_title, ratio) ==
    IF IsSubstring(normalize_title(expected_title), normalize_title(scene_name)) THEN 100
    ELSE IF ~has_season_episode(scene_name) THEN 0
    ELSE IF is_missing_title(guess_title, expected_title) THEN MISSING_TITLE_CONF
    ELSE title_conf(ratio)

\* The substring rule's condition for the scored file.
SubstringRuleFires == IsSubstring(normalize_title(ep_title), normalize_title(file_scene))

\* ------------------------------------------------------ scoring a file
\* Episode titles Sonarr expects.
ExpectedTitles == {"Pilot", "13", "Part One", "A Night", "Reunion"}

\* Scene names of episode files.
ScoreSceneNames ==
    { "Show.S01E02.Pilot.720p", "Show.S01E02.13.720p", "Show.S01E02.720p",
      "Show.Pilot.mkv", "Show.2021.mkv", "Show.1x02.Part2",
      "Show.S01E02.A.Night.HDTV", "Show.S01E02.Part.1.720p" }

\* Values token_sort_ratio returns (0 to 100): the ends and the two around the
\* 0.5 boundary of the score.
TokenSortRatios == {0, 61, 62, 100}

NotScored ==
    [done |-> FALSE, raw_scene_title |-> "", confidence |-> 0,
     substring_override |-> FALSE, missing_title |-> FALSE]

ScoreQuiet ==
    /\ ep_title = ""
    /\ file_scene = ""
    /\ scored = NotScored
    /\ cleaned = <<>>

ScoreInit ==
    /\ ep_title \in ExpectedTitles
    /\ file_scene \in ScoreSceneNames
    /\ scored = NotScored
    /\ cleaned = <<>>

\* analyzer.py check_episode lines 604-633: the values it hands to
\* insert_episode for the file.
ScoreFile ==
    /\ ~scored.done
    /\ \E guess_title \in GuessTitles(file_scene), ratio \in TokenSortRatios :
         LET raw_scene_title == extract_scene_title(guess_title)
             norm_expected == normalize_title(ep_title)
             norm_extracted == normalize_title(raw_scene_title)
         IN  scored' =
               [done |-> TRUE,
                raw_scene_title |-> raw_scene_title,
                confidence |-> compute_confidence(ep_title, file_scene, guess_title, ratio),
                substring_override |-> IsSubstring(norm_expected, norm_extracted),
                missing_title |-> is_missing_title(guess_title, ep_title)]
    /\ UNCHANGED <<ep_title, file_scene, cleaned>>
    /\ UNCHANGED NotScore

\* cleanup.py: extract_scene_title applied to the scene name.
CleanupExtractsTitle ==
    /\ cleaned = <<>>
    /\ cleaned' = <<cleanup_extract_scene_title(file_scene)>>
    /\ UNCHANGED <<ep_title, file_scene, scored>>
    /\ UNCHANGED NotScore

\* ------------------------------------------- analyzer.py grab_best_nzb
\* The series grab_best_nzb is called for, and another one.
series_id == "series"
OtherSeries == "other"

\* analyzer.py line 524: top10 = candidates[:10]
TOP_N == 10

\* Releases of one kind that Sonarr returns between the two free ones.
MaxFillers == 10

\* A release as grab_best_nzb reads it: mappedSeriesId, customFormatScore (a key
\* that may be absent), the value compute_confidence returns for its title
\* against the expected title, and whether it has a downloadUrl.
Filler ==
    [mappedSeriesId |-> series_id, hasScore |-> TRUE, customFormatScore |-> 1,
     conf |-> 0, hasUrl |-> TRUE]

FreeReleases ==
    {r \in [mappedSeriesId : {series_id, OtherSeries}, hasScore : BOOLEAN,
            customFormatScore : {0, 1, 2}, conf : {0, MISSING_TITLE_CONF, 100},
            hasUrl : BOOLEAN] :
        r.hasScore \/ r.customFormatScore = 0}

OptionalRelease == {<<>>} \cup {<<r>> : r \in FreeReleases}

Fillers(n) == [i \in 1..n |-> Filler]

NotGrabbed == [done |-> FALSE, chosen |-> 0, deleted |-> FALSE, pushed |-> <<>>]

GrabQuiet == releases = <<>> /\ grab = NotGrabbed

GrabInit ==
    /\ releases \in {a \o Fillers(n) \o b :
                       a \in OptionalRelease, b \in OptionalRelease, n \in 0..MaxFillers}
    /\ grab = NotGrabbed

\* line 523: r.get("customFormatScore", 0)
custom_format_score(r) == IF r.hasScore THEN r.customFormatScore ELSE 0

\* line 515: the positions of the releases mapped to the series, in order.
RECURSIVE candidates_from(_, _)
candidates_from(rels, i) ==
    IF i > Len(rels) THEN <<>>
    ELSE (IF rels[i].mappedSeriesId = series_id THEN <<i>> ELSE <<>>)
         \o candidates_from(rels, i + 1)

\* line 523: list.sort(key=..., reverse=True) is stable: a position goes behind
\* every position whose score is at least its own.
RECURSIVE insert_sorted(_, _, _)
insert_sorted(rels, sorted, i) ==
    IF sorted = <<>> THEN <<i>>
    ELSE IF custom_format_score(rels[Head(sorted)]) >= custom_format_score(rels[i])
      THEN <<Head(sorted)>> \o insert_sorted(rels, Tail(sorted), i)
      ELSE <<i>> \o sorted

RECURSIVE sort_candidates(_, _, _)
sort_candidates(rels, sorted, rest) ==
    IF rest = <<>> THEN sorted
    ELSE sort_candidates(rels, insert_sorted(rels, sorted, Head(rest)), Tail(rest))

\* A top10 that keeps every candidate.
top10_all(sorted) == sorted

\* line 524: candidates[:10]
top10(sorted) == SubSeq(sorted, 1, IF Len(sorted) < TOP_N THEN Len(sorted) ELSE TOP_N)

\* lines 535-544: the loop `if conf > best_confidence`, started with no
\* candidate (0) and best_confidence -1.0.
RECURSIVE best_candidate(_, _, _, _)
best_candidate(rels, top, best, best_confidence) ==
    IF top = <<>> THEN best
    ELSE IF rels[Head(top)].conf > best_confidence
      THEN best_candidate(rels, Tail(top), Head(top), rels[Head(top)].conf)
      ELSE best_candidate(rels, Tail(top), best, best_confidence)

\* analyzer.py grab_best_nzb, lines 486-582, for every outcome of its calls to
\* Sonarr: the EpisodeSearch command, the release list, the episode's title,
\* the episode's current file and its deletion (delete_episode_file, lines
\* 461-484, which logs a failure and returns).
GrabBestNzb ==
    /\ ~grab.done
    /\ \E cmd_ok \in BOOLEAN, releases_ok \in BOOLEAN, title_ok \in BOOLEAN,
          file_id \in BOOLEAN, delete_ok \in BOOLEAN :
         LET rels == IF releases_ok THEN releases ELSE <<>>
             candidates == candidates_from(rels, 1)
             top == top10(sort_candidates(rels, <<>>, candidates))
             best == best_candidate(rels, top, 0, -1)
         IN  grab' =
               IF ~cmd_ok \/ candidates = <<>> \/ ~title_ok \/ best = 0
                 THEN [NotGrabbed EXCEPT !.done = TRUE]
                 ELSE [done |-> TRUE,
                       chosen |-> best,
                       deleted |-> file_id /\ delete_ok,
                       pushed |-> IF rels[best].hasUrl THEN <<best>> ELSE <<>>]
    /\ UNCHANGED releases
    /\ UNCHANGED NotGrab

\* ------------------------------------------------------- jobs.py workers
\* jobs.py line 115: poll_interval = 4
POLL_INTERVAL == 4

\* Largest SONARR_IMPORT_TIMEOUT of the environment, in seconds.
MaxImportTimeout == 9

\* The environment of a job: which start_* function created it, whether
\* SONARR_URL and SONARR_API_KEY are set, and SONARR_IMPORT_TIMEOUT (valid: int()
\* accepts it).  What the worker never reads is kept at one value.
JobEnvs ==
    [type : {"replace", "library_scan"}, sonarr : BOOLEAN,
     valid : BOOLEAN, timeout : 0..MaxImportTimeout]

\* start_replace_job lines 36-42 / start_library_scan_job lines 194-200: the
\* record create_job_record stores.
QueuedJob == [status |-> "queued", progress |-> 0]

NoWorker == [pc |-> "start", elapsed |-> 0, found |-> FALSE, rc |-> "unset"]

JobsQuiet ==
    /\ jobenv = [type |-> "replace", sonarr |-> FALSE, valid |-> TRUE, timeout |-> 0]
    /\ job = QueuedJob
    /\ worker = [NoWorker EXCEPT !.pc = "end"]

JobsInit ==
    /\ jobenv \in {e \in JobEnvs :
                      /\ (e.type = "library_scan" \/ ~e.sonarr) => (e.valid /\ e.timeout = 0)
                      /\ ~e.valid => e.timeout = 0}
    /\ job = QueuedJob
    /\ worker = NoWorker

\* _set(job_id, **kwargs): jobs[job_id].update(kwargs) under jobs_lock.
job_set(j, status, progress) == [status |-> status, progress |-> progress]

\* line 117: while elapsed < timeout
poll_continues(elapsed, timeout) == elapsed < timeout

\* A poll loop whose elapsed time starts over on every second turn.
next_elapsed_restarting(elapsed) == IF elapsed = 0 THEN POLL_INTERVAL ELSE 0

\* line 149: elapsed += poll_interval
next_elapsed(elapsed) == elapsed + POLL_INTERVAL

\* line 150: 20 + int(elapsed / max(1, int(timeout)) * 50); the float arithmetic
\* agrees with the integer quotient for every timeout below 200.
poll_progress(elapsed, timeout) ==
    20 + (elapsed * 50) \div (IF timeout < 1 THEN 1 ELSE timeout)

\* An analyzer whose return code is never looked at.
analyzer_failed_never(rc) == FALSE

\* lines 174 / 209: if p.returncode != 0
analyzer_failed(rc) == rc # "zero"

\* What subprocess.run of the analyzer yields: return code 0, another return
\* code, or an exception (TimeoutExpired, OSError).
AnalyzerOutcomes == {"zero", "nonzero", "raised"}

\* _job_worker line 65 / _worker line 204: status running, progress 5.
WorkerStart ==
    /\ worker.pc = "start"
    /\ job' = job_set(job, "running", 5)
    /\ worker' = [worker EXCEPT !.pc = IF jobenv.type = "replace" THEN "replace" ELSE "scan"]
    /\ UNCHANGED jobenv
    /\ UNCHANGED NotJobs

\* _job_worker lines 68-84: the internal POST to /api/episodes/replace.
WorkerReplace ==
    /\ worker.pc = "replace"
    /\ \E outcome \in {"ok", "http_error", "raised"} :
         IF outcome = "ok"
           THEN /\ job' = job_set(job, job.status, 20)
                /\ worker' = [worker EXCEPT !.pc = "meta"]
           ELSE /\ job' = job_set(job, "error", job.progress)
                /\ worker' = [worker EXCEPT !.pc = "end"]
    /\ UNCHANGED jobenv
    /\ UNCHANGED NotJobs

\* _job_worker lines 87-116: the metadata lookup, then the choice between
\* polling and running the analyzer at once; int() of an invalid
\* SONARR_IMPORT_TIMEOUT raises into the outer handler (lines 184-186).
WorkerMeta ==
    /\ worker.pc = "meta"
    /\ \E outcome \in {"ok", "missing_ids", "raised"} :
         IF outcome # "ok" \/ (jobenv.sonarr /\ ~jobenv.valid)
           THEN /\ job' = job_set(job, "error", job.progress)
                /\ worker' = [worker EXCEPT !.pc = "end"]
           ELSE /\ UNCHANGED job
                /\ worker' = IF jobenv.sonarr
                               THEN [worker EXCEPT !.pc = "poll", !.elapsed = 0, !.found = FALSE]
                               ELSE [worker EXCEPT !.pc = "launch", !.found = TRUE]
    /\ UNCHANGED jobenv
    /\ UNCHANGED NotJobs

\* _job_worker lines 117-150: one turn of the poll loop.  The history request
\* finds the episode, does not find it, or raises (logged); without a find the
\* worker sleeps, adds to elapsed and sets the progress.
WorkerPoll ==
    /\ worker.pc = "poll"
    /\ IF poll_continues(worker.elapsed, jobenv.timeout)
         THEN \E outcome \in {"found", "not_found", "raised"} :
                IF outcome = "found"
                  THEN /\ worker' = [worker EXCEPT !.pc = "after_poll", !.found = TRUE]
                       /\ UNCHANGED job
                  ELSE /\ worker' = [worker EXCEPT !.elapsed = next_elapsed(worker.elapsed)]
                       /\ job' = job_set(job, job.status,
                                         poll_progress(next_elapsed(worker.elapsed), jobenv.timeout))
         ELSE /\ worker' = [worker EXCEPT !.pc = "after_poll"]
              /\ UNCHANGED job
    /\ UNCHANGED jobenv
    /\ UNCHANGED NotJobs

\* _job_worker lines 151-154: after a timeout the progress is set to 80.
WorkerAfterPoll ==
    /\ worker.pc = "after_poll"
    /\ job' = IF worker.found THEN job ELSE job_set(job, job.status, 80)
    /\ worker' = [worker EXCEPT !.pc = "launch"]
    /\ UNCHANGED jobenv
    /\ UNCHANGED NotJobs

\* _job_worker line 157: progress 85, "Running analyzer...".
WorkerLaunch ==
    /\ worker.pc = "launch"
    /\ job' = job_set(job, job.status, 85)
    /\ worker' = [worker EXCEPT !.pc = "analyzer"]
    /\ UNCHANGED jobenv
    /\ UNCHANGED NotJobs

\* _job_worker lines 159-183 / _worker lines 206-218: subprocess.run of the
\* analyzer up to _set(progress=100).
WorkerAnalyzer ==
    /\ worker.pc \in {"analyzer", "scan"}
    /\ \E rc \in AnalyzerOutcomes :
         /\ worker' = [worker EXCEPT !.rc = rc,
                                     !.pc = IF rc = "raised" \/ analyzer_failed(rc)
                                              THEN "end" ELSE "finish"]
         /\ job' = IF rc = "raised" THEN job_set(job, "error", job.progress)
                   ELSE IF analyzer_failed(rc) THEN job_set(job, "error", 95)
                   ELSE job_set(job, job.status, 100)
    /\ UNCHANGED jobenv
    /\ UNCHANGED NotJobs

\* _job_worker line 180 / _worker line 215: _set(job_id, status="done").
WorkerFinish ==
    /\ worker.pc = "finish"
    /\ job' = job_set(job, "done", job.progress)
    /\ worker' = [worker EXCEPT !.pc = "end"]
    /\ UNCHANGED jobenv
    /\ UNCHANGED NotJobs

\* ------------------------------------------- cleanup.py cleanup_deleted, keys
\* Series in Sonarr's library.
MaxSeries == 2
SeriesIds == 1..MaxSeries

\* Titles of the series.
LibraryTitles == {"Show", "The One", "Law & Order"}

\* The one episode of each series the table may hold a row for.
LibraryEpisode == [seasonNumber |-> 1, episodeNumber |-> 2]

\* cleanup.py normalize_title, lines 63-71.
cleanup_normalize_title(text) ==
    IF text = "" THEN ""
    ELSE str_lower(keep_alnum(nfkd(str_replace(text, "&", "and"))))

\* cleanup_deleted line 163: the key of a live episode.
cleanup_key(title, e) ==
    "series::" \o cleanup_normalize_title(title)
        \o "::S" \o format_02d(e.seasonNumber) \o "E" \o format_02d(e.episodeNumber)

\* SonarrClient.get returns None on any failure; `response or []` (line 150)
\* turns None, like an empty list, into an empty list.
or_empty(response) == IF response.ok THEN response ELSE [ok |-> TRUE, eps |-> {}]

\* line 151: `if eps is None`, applied to the value line 150 assigned.
eps_is_none(eps) == ~eps.ok

\* lines 155-164: the episodes of a response that count as live (Sonarr gives
\* an episode an episodeFileId exactly when it has a file).
live_episodes(eps) == {e \in eps.eps : e.hasFile}

NoCleanupRun ==
    [done |-> FALSE, series_fetched |-> FALSE, eps_failed |-> {}, before |-> {}]

CleanupRunQuiet ==
    /\ library = [s \in SeriesIds |-> [title |-> "", listed |-> FALSE, hasFile |-> FALSE]]
    /\ db_keys = {}
    /\ cleanup_run = NoCleanupRun

\* Sonarr's library (series of different titles; per series whether Sonarr
\* returns the episode and whether it has a file) and the rows of `episodes`
\* the analyzer has written for these episodes.
CleanupRunInit ==
    /\ library \in {l \in [SeriesIds -> [title : LibraryTitles, listed : BOOLEAN,
                                          hasFile : BOOLEAN]] :
                      /\ \A s, t \in SeriesIds : s # t => l[s].title # l[t].title
                      /\ \A s \in SeriesIds : l[s].hasFile => l[s].listed}
    /\ db_keys \in SUBSET {analyzer_key(library[s].title, LibraryEpisode) : s \in SeriesIds}
    /\ cleanup_run = NoCleanupRun

\* cleanup.py cleanup_deleted, lines 119-195, for every outcome of its requests
\* to Sonarr: the series list, and each series' episode list.
CleanupDeleted ==
    /\ ~cleanup_run.done
    /\ \E series_ok \in BOOLEAN, eps_ok \in [SeriesIds -> BOOLEAN] :
         LET response(s) ==
                 [ok |-> eps_ok[s],
                  eps |-> IF eps_ok[s] /\ library[s].listed
                            THEN {[hasFile |-> library[s].hasFile]} ELSE {}]
             kept == {s \in SeriesIds : ~eps_is_none(or_empty(response(s)))}
             live_keys == {cleanup_key(library[s].title, LibraryEpisode) :
                             s \in {t \in kept : live_episodes(or_empty(response(t))) # {}}}
         IN  /\ db_keys' = IF ~series_ok THEN db_keys
                           ELSE IF live_keys = {} THEN {}
                           ELSE db_keys \cap live_keys
             /\ cleanup_run' = [done |-> TRUE,
                                series_fetched |-> series_ok,
                                eps_failed |-> IF series_ok
                                                 THEN {s \in SeriesIds : ~eps_ok[s]} ELSE {},
                                before |-> db_keys]
    /\ UNCHANGED library
    /\ UNCHANGED NotCleanupRun

\* ======================================================== specifications
LedgerQuiet ==
    /\ mismatch_tracking = NoTracking
    /\ fpc = [f \in Filters |-> "idle"]
    /\ special_tag = FALSE
    /\ chk = [pc |-> "idle", count |-> 0]
    /\ grabs = 0
    /\ checkerThreshold = CHECKER_MISMATCH_THRESHOLD

Init == TagStoreInit /\ LedgerQuiet /\ NormalizeQuiet /\ KeysQuiet /\ ScoreQuiet /\ GrabQuiet /\ JobsQuiet
    /\ CleanupRunQuiet

\* The tag store under every operation on it.
Next ==
    \/ StartLibraryScanJob
    \/ \E a \in Analyzers : CheckEpisodeStep(a)
    \/ \E a \in Analyzers : AnalyzerKilled(a)
    \/ ReplaceEpisode
    \/ AutoFix
    \/ SonarrImport
    \/ OverrideEpisode
    \/ \E name \in TagNames : ApiAddTag(name)
    \/ \E name \in TagNames : ApiRemoveTag(name)
    \/ CleanupFetch
    \/ CleanupDelete

Spec == Init /\ [][Next]_vars

\* Automatic evaluations and manual overrides alone.
NextEvaluations ==
    \/ StartLibraryScanJob
    \/ \E a \in Analyzers : CheckEpisodeStep(a)
    \/ OverrideEpisode

SpecEvaluations == Init /\ [][NextEvaluations]_vars

\* The watcher starting library scans on filesystem events.
NextWatcher ==
    \/ \E ignore_cooldown \in BOOLEAN : TriggerCheck(ignore_cooldown)
    \/ CooldownElapses
    \/ \E a \in Analyzers : CheckEpisodeStep(a)

SpecWatcher == Init /\ [][NextWatcher]_vars

\* Library scans one after another, each of which may be killed.
SerialScan ==
    /\ \A a \in Analyzers : pc[a] \in Returned
    /\ StartLibraryScanJob

NextSerial ==
    \/ SerialScan
    \/ \E a \in Analyzers : CheckEpisodeStep(a)
    \/ \E a \in Analyzers : AnalyzerKilled(a)

SpecSerial == Init /\ [][NextSerial]_vars

\* Evaluations and manual overrides that never overlap: each starts when every
\* analyzer run has returned, and no run is killed.
SerialOverride ==
    /\ \A a \in Analyzers : pc[a] \in Returned
    /\ OverrideEpisode

NextNonOverlapping ==
    \/ SerialScan
    \/ \E a \in Analyzers : CheckEpisodeStep(a)
    \/ SerialOverride

SpecNonOverlapping == Init /\ [][NextNonOverlapping]_vars

\* The mismatch ledger: admission filter and checker.
InitLedger == TagStoreInit /\ LedgerInit /\ NormalizeQuiet /\ KeysQuiet /\ ScoreQuiet /\ GrabQuiet /\ JobsQuiet
    /\ CleanupRunQuiet

NextLedger ==
    \/ \E f \in Filters : FilterStart(f)
    \/ \E f \in Filters : FilterGetCount(f)
    \/ \E f \in Filters : FilterInc(f)
    \/ CheckerStart
    \/ CheckerDecide

SpecLedger == InitLedger /\ [][NextLedger]_vars

\* The admission filter invoked for one NZB after another.
NextSequentialFilter ==
    \/ \E f \in Filters : SequentialFilterStart(f)
    \/ \E f \in Filters : FilterGetCount(f)
    \/ \E f \in Filters : FilterInc(f)

SpecSequentialFilter == InitLedger /\ [][NextSequentialFilter]_vars

\* A run of mismatching releases of one key, with no match: the admission
\* filter sees one release after another and the checker, under its default
\* threshold, evaluates the episode again and again.
FilterMismatch(f) ==
    /\ SequentialFilterStart(f)
    /\ fpc'[f] = "mismatch"

CheckerMismatch ==
    /\ CheckerStart
    /\ chk'.pc = "decide"

NextMismatchRun ==
    \/ \E f \in Filters : FilterMismatch(f)
    \/ \E f \in Filters : FilterGetCount(f)
    \/ \E f \in Filters : FilterInc(f)
    \/ CheckerMismatch
    \/ CheckerDecide

SpecMismatchRun ==
    /\ Init
    /\ [][NextMismatchRun]_vars
    /\ WF_vars(\E f \in Filters : FilterMismatch(f))
    /\ WF_vars(\E f \in Filters : FilterGetCount(f))
    /\ WF_vars(\E f \in Filters : FilterInc(f))
    /\ WF_vars(CheckerMismatch)
    /\ WF_vars(CheckerDecide)

\* normalize_title on its own.
InitNormalize == TagStoreInit /\ LedgerQuiet /\ NormalizeInit /\ KeysQuiet /\ ScoreQuiet /\ GrabQuiet /\ JobsQuiet
    /\ CleanupRunQuiet

NextNormalize == NormalizeTitle

SpecNormalize == InitNormalize /\ [][NextNormalize]_vars

\* The identity keys the components build for one episode.
InitKeys == TagStoreInit /\ LedgerQuiet /\ NormalizeQuiet /\ KeysInit /\ ScoreQuiet /\ GrabQuiet /\ JobsQuiet
    /\ CleanupRunQuiet

NextKeys ==
    \/ RenameFile
    \/ AnalyzerBuildsKey
    \/ CheckerBuildsKey
    \/ FilterBuildsKey

SpecKeys == InitKeys /\ [][NextKeys]_vars

\* The scorer and the title extraction applied to one file.
InitScore == TagStoreInit /\ LedgerQuiet /\ NormalizeQuiet /\ KeysQuiet /\ ScoreInit /\ GrabQuiet /\ JobsQuiet
    /\ CleanupRunQuiet

NextScore ==
    \/ ScoreFile
    \/ CleanupExtractsTitle

SpecScore == InitScore /\ [][NextScore]_vars

\* One call of grab_best_nzb.
InitGrab ==
    /\ TagStoreInit /\ LedgerQuiet /\ NormalizeQuiet /\ KeysQuiet /\ ScoreQuiet
    /\ GrabInit /\ JobsQuiet /\ CleanupRunQuiet

NextGrab == GrabBestNzb

SpecGrab == InitGrab /\ [][NextGrab]_vars

\* One background job and its worker thread.
InitJobs ==
    /\ TagStoreInit /\ LedgerQuiet /\ NormalizeQuiet /\ KeysQuiet /\ ScoreQuiet
    /\ GrabQuiet /\ JobsInit /\ CleanupRunQuiet

NextJobs ==
    \/ WorkerStart
    \/ WorkerReplace
    \/ WorkerMeta
    \/ WorkerPoll
    \/ WorkerAfterPoll
    \/ WorkerLaunch
    \/ WorkerAnalyzer
    \/ WorkerFinish

SpecJobs == InitJobs /\ [][NextJobs]_vars

\* The worker is a thread of its own: it takes its next step as long as it has
\* one.
SpecJobsFair == SpecJobs /\ WF_vars(NextJobs)

\* One run of cleanup.py over a library.
InitCleanupRun ==
    /\ TagStoreInit /\ LedgerQuiet /\ NormalizeQuiet /\ KeysQuiet /\ ScoreQuiet
    /\ GrabQuiet /\ JobsQuiet /\ CleanupRunInit

NextCleanupRun == CleanupDeleted

SpecCleanupRun == InitCleanupRun /\ [][NextCleanupRun]_vars

\* ================================================================ claims
\* C1: under automatic evaluations and manual overrides, `matched` and
\* `problematic-episode` are never both present in any reachable state of the
\* tag store, the states between add_tag and remove_tag included.
C1_TagsExclusive == ~(MATCHED \in tags /\ PROBLEMATIC \in tags)

\* C2: while `override` is present, an evaluation's lookup and override check
\* change neither the tag set nor the episode record, and the override check
\* ends the evaluation before any write.
C2_OverrideSuppressesEvaluation ==
    [][\A a \in Analyzers :
         (OVERRIDE \in tags /\ pc[a] \in {"lookup", "override_check"} /\ pc'[a] # pc[a])
           => /\ tags' = tags
              /\ episode' = episode
              /\ pc'[a] \notin WriteSection
              /\ pc[a] = "override_check" => pc'[a] \in Returned]_vars

C2_Witness == OVERRIDE \in tags /\ \E a \in Analyzers : pc[a] = "skipped"

\* C3: the step that completes an evaluation of a non-overridden identity leaves
\* `matched` present and `problematic-episode` absent when the score is >= 0.5,
\* and the reverse when it is < 0.5, whatever the tags were.
C3_CompletedEvaluationSetsTags ==
    [][\A a \in Analyzers :
         (pc[a] \in MutationSection /\ pc'[a] = "done" /\ OVERRIDE \notin tags)
           => IF confidence[a] >= MATCH_CONFIDENCE
                THEN MATCHED \in tags' /\ PROBLEMATIC \notin tags'
                ELSE PROBLEMATIC \in tags' /\ MATCHED \notin tags']_vars

\* C4: the manual override of an identity that has an episode record ends, in
\* one step, with confidence 1.0, `matched` and `override` present and
\* `problematic-episode` absent, from any prior tag state.
C4_OverrideResult ==
    [][(OverrideEpisode /\ episode.exists)
         => /\ episode'.confidence = OVERRIDE_CONFIDENCE
            /\ episode'.exists
            /\ MATCHED \in tags'
            /\ OVERRIDE \in tags'
            /\ PROBLEMATIC \notin tags'
            /\ tags' \ TagNames = tags \ TagNames]_vars

C4_Witness ==
    /\ episode.exists
    /\ episode.confidence = OVERRIDE_CONFIDENCE
    /\ {MATCHED, OVERRIDE} \subseteq tags
    /\ PROBLEMATIC \notin tags

\* C5 as stated: once present, `override` leaves the identity only by the
\* explicit manual clear.
C5_OverrideTerminal ==
    [][(OVERRIDE \in tags /\ OVERRIDE \notin tags') => ApiRemoveTag(OVERRIDE)]_vars

\* C5 as the code has it: once present, `override` leaves the identity only by
\* the explicit manual clear or when cleanup_deleted deletes the identity's
\* episode record; evaluations and grab_best_nzb leave it present.
C5_OverrideLeavesByClearOrCleanup ==
    [][(OVERRIDE \in tags /\ OVERRIDE \notin tags')
         => \/ ApiRemoveTag(OVERRIDE)
            \/ (CleanupDelete /\ episode.exists /\ ~episode'.exists)]_vars

C5_Witness ==
    /\ OVERRIDE \in tags
    /\ ~sonarrHasFile
    /\ \E a \in Analyzers : pc[a] = "remove_tag"

\* C6: no step of an analyzer run adds `override`; the tag appears only by the
\* manual override or the manual tag request.
C6_PipelineNeverAddsOverride ==
    [][(OVERRIDE \notin tags /\ OVERRIDE \in tags')
         => (OverrideEpisode \/ ApiAddTag(OVERRIDE))]_vars

C6_Witness ==
    /\ OVERRIDE \notin tags
    /\ MATCHED \in tags
    /\ episode.exists /\ episode.confidence = OVERRIDE_CONFIDENCE
    /\ \E a \in Analyzers : pc[a] = "done"

\* C7: the step in which the episode-file lookup returns None changes neither
\* the tag set nor the episode record and ends the evaluation.
C7_LookupFailureChangesNothing ==
    [][\A a \in Analyzers :
         epfile'[a] = "None"
           => /\ pc'[a] = "lookup_failed"
              /\ epfile[a] # "None" => (tags' = tags /\ episode' = episode)]_vars

C7_Witness ==
    /\ episode.exists
    /\ tags # {}
    /\ \E a \in Analyzers : pc[a] = "lookup_failed" /\ epfile[a] = "None"

\* C8: at most one analyzer run is inside the tag-mutation section of
\* check_episode for the identity at a time.
C8_OneMutatorAtATime ==
    Cardinality({a \in Analyzers : pc[a] \in MutationSection}) <= 1

\* C9: the checker evaluation that finds the counter at the threshold and the
\* identity not yet tagged runs grab_best_nzb once, and no other step runs it.
C9_RemediationOncePerCrossing ==
    [][IF chk.pc = "decide" /\ chk'.pc # "decide"
          /\ chk.count >= checkerThreshold /\ ~special_tag
         THEN grabs' = grabs + 1
         ELSE grabs' = grabs]_vars

\* C10 as stated: the counter is never negative, every detected mismatch ends
\* with the counter one higher (1 when there was no row), and a detected match
\* leaves it 0.
C10_EveryMismatchIncrements ==
    [][/\ mismatch_tracking'.count >= 0
       /\ \A f \in Filters :
            (fpc[f] \in {"mismatch", "inc"} /\ fpc'[f] \in Responded)
              => mismatch_tracking' = [exists |-> TRUE, count |-> get_count(mismatch_tracking) + 1]
       /\ \A f \in Filters :
            (FilterStart(f) /\ fpc'[f] = "matched") => get_count(mismatch_tracking') = 0]_vars

\* C10 as the code has it: the counter is never negative; a detected mismatch
\* that reads it below MISMATCH_THRESHOLD ends with it one higher (1 when there
\* was no row); one that reads it at or above the threshold accepts and leaves
\* it unchanged; a detected match leaves it 0.
C10_MismatchIncrementsBelowThreshold ==
    [][/\ mismatch_tracking'.count >= 0
       /\ \A f \in Filters :
            (fpc[f] = "inc" /\ fpc'[f] # "inc")
              => /\ fpc'[f] = "rejected"
                 /\ mismatch_tracking' = [exists |-> TRUE, count |-> get_count(mismatch_tracking) + 1]
       /\ \A f \in Filters :
            (fpc[f] = "mismatch" /\ fpc'[f] # "mismatch")
              => /\ mismatch_tracking' = mismatch_tracking
                 /\ fpc'[f] = IF get_count(mismatch_tracking) >= FILTER_MISMATCH_THRESHOLD
                                THEN "accepted" ELSE "inc"
       /\ \A f \in Filters :
            (FilterStart(f) /\ fpc'[f] = "matched") => get_count(mismatch_tracking') = 0]_vars

C10_Witness ==
    /\ mismatch_tracking.exists
    /\ mismatch_tracking.count = FILTER_MISMATCH_THRESHOLD
    /\ \E f, g \in Filters : fpc[f] = "accepted" /\ fpc[g] = "rejected"

\* C11: whatever scene names the file of an episode goes through, each component
\* that builds keys builds one and the same key for the episode.
C11_KeyIndependentOfSceneName ==
    \A c \in Components : Cardinality(keys[c]) <= 1

\* C12: for every expected title and scene name the score compute_confidence
\* returns lies in [0,1]: in hundredths, an integer from 0 to 100.
C12_ScoreInUnitInterval == scored.done => scored.confidence \in 0..100

\* The score came from the title-similarity rule.
C12_Witness == scored.done /\ scored.confidence \notin {0, MISSING_TITLE_CONF, 100}

\* C13: whenever the normalized expected title is a substring of the normalized
\* full scene name the score is exactly 1.0, with or without a season/episode
\* marker and whatever the extractor returned.
C13_SubstringScoresOne == (scored.done /\ SubstringRuleFires) => scored.confidence = 100

\* The substring rule fired for a scene name without a marker and with no title
\* extracted.
C13_Witness ==
    /\ scored.done
    /\ SubstringRuleFires
    /\ ~has_season_episode(file_scene)
    /\ scored.missing_title
    /\ scored.confidence = 100

\* C14: whenever the scene name holds no season/episode marker and the
\* normalized expected title is not a substring of the normalized scene name,
\* the score is exactly 0.0.
C14_NoMarkerScoresZero ==
    (scored.done /\ ~SubstringRuleFires /\ ~has_season_episode(file_scene))
        => scored.confidence = 0

\* A scene name without a marker from which a title was extracted scored 0.
C14_Witness ==
    /\ scored.done
    /\ ~SubstringRuleFires
    /\ ~has_season_episode(file_scene)
    /\ scored.raw_scene_title # ""
    /\ scored.confidence = 0

\* C15: when the substring rule does not fire, the scene name has a marker and
\* the extracted title is empty, or purely numeric and different from the
\* normalized expected title, or of the form Part<digits>, the score is exactly
\* 0.8, which classifies the identity as matched.
C15_MissingTitleScoresBase ==
    ( /\ scored.done
      /\ ~SubstringRuleFires
      /\ has_season_episode(file_scene)
      /\ LET raw == scored.raw_scene_title
         IN  \/ raw = ""
             \/ str_isdigit(raw) /\ raw # normalize_title(ep_title)
             \/ MatchesAt(raw, 1, "part") /\ str_isdigit(SubSeq(raw, 5, Len(raw))) )
        => (scored.confidence = 80 /\ scored.confidence >= MATCH_CONFIDENCE)

\* A marked scene name whose extracted title is not empty and still judged
\* missing scored 0.8.
C15_Witness ==
    /\ scored.done
    /\ ~SubstringRuleFires
    /\ has_season_episode(file_scene)
    /\ scored.raw_scene_title # ""
    /\ scored.missing_title
    /\ scored.confidence = 80

\* C16: the recorded substringOverride flag is true exactly when the normalized
\* expected title is a substring of the normalized full scene name.
C16_FlagIsSubstringRule == scored.done => (scored.substring_override <=> SubstringRuleFires)

\* C17: normalize_title returns for every text, the empty one and those without
\* an alphanumeric character included (they give ""), and applying it to its
\* own result changes nothing.
C17_NormalizeIdempotent ==
    /\ (Len(nt) >= 1 /\ keep_alnum(input_text) = "") => nt[1] = ""
    /\ Len(nt) = 2 => nt[2] = nt[1]

\* C19: in the admission filter run for one release after another, a
\* mismatching release that finds the counter at MISMATCH_THRESHOLD is accepted
\* and leaves the counter unchanged; one that finds it below is rejected and
\* increments it; only a match takes the counter back to 0; so the counter, the
\* number of releases rejected since the last match, never exceeds
\* MISMATCH_THRESHOLD.
C19_ThresholdBoundsRejections ==
    [][/\ \A f \in Filters :
            (fpc[f] = "mismatch" /\ fpc'[f] # "mismatch")
              => /\ mismatch_tracking' = mismatch_tracking
                 /\ get_count(mismatch_tracking) >= FILTER_MISMATCH_THRESHOLD
                      => fpc'[f] = "accepted"
                 /\ get_count(mismatch_tracking) < FILTER_MISMATCH_THRESHOLD
                      => fpc'[f] = "inc"
       /\ \A f \in Filters :
            (fpc[f] = "inc" /\ fpc'[f] # "inc")
              => /\ fpc'[f] = "rejected"
                 /\ get_count(mismatch_tracking') = get_count(mismatch_tracking) + 1
       /\ get_count(mismatch_tracking') # get_count(mismatch_tracking)
            => \/ \E f \in Filters : fpc'[f] = "rejected" /\ fpc[f] = "inc"
               \/ /\ \E f \in Filters : fpc'[f] = "matched" /\ fpc[f] \in Responded
                  /\ get_count(mismatch_tracking') = 0
       /\ get_count(mismatch_tracking') <= FILTER_MISMATCH_THRESHOLD]_vars

\* The counter stands at the threshold and the last release, a mismatch, was
\* accepted.
C19_Witness ==
    /\ get_count(mismatch_tracking) = FILTER_MISMATCH_THRESHOLD
    /\ \A f \in Filters : fpc[f] \in Responded
    /\ \E f \in Filters : fpc[f] = "accepted"
    /\ \E f \in Filters : fpc[f] = "rejected"

\* C20: grab_best_nzb pushes at most one release per call; a pushed release is
\* mapped to the requested series, is one of the 10 candidates with the highest
\* customFormatScore, and has the highest confidence among those 10, the first
\* one in descending customFormatScore order when several have it.
C20_PushesBestOfTopTen ==
    LET Candidate(i) == releases[i].mappedSeriesId = series_id
        Before(i, j) ==
            \/ custom_format_score(releases[i]) > custom_format_score(releases[j])
            \/ /\ custom_format_score(releases[i]) = custom_format_score(releases[j])
               /\ i < j
        InTopTen(i) ==
            /\ Candidate(i)
            /\ Cardinality({j \in 1..Len(releases) : Candidate(j) /\ Before(j, i)}) < TOP_N
    IN  grab.done =>
          /\ Len(grab.pushed) <= 1
          /\ \A k \in 1..Len(grab.pushed) :
               LET p == grab.pushed[k]
               IN  /\ p \in 1..Len(releases)
                   /\ InTopTen(p)
                   /\ \A j \in 1..Len(releases) :
                        InTopTen(j) =>
                          \/ releases[j].conf < releases[p].conf
                          \/ j = p
                          \/ releases[j].conf = releases[p].conf /\ Before(p, j)

\* A release was pushed although a candidate outside the top 10 has a higher
\* confidence.
C20_Witness ==
    /\ grab.done
    /\ Len(grab.pushed) = 1
    /\ \E j \in 1..Len(releases) :
         /\ releases[j].mappedSeriesId = series_id
         /\ releases[j].conf > releases[grab.pushed[1]].conf

\* C18: for a scene name with an SxxEyy token extract_scene_title returns the
\* tokens between the first SxxEyy token and the first end-marker after it that
\* are Title-Case (first character uppercase, remainder lowercase) or purely
\* numeric, in order, joined by single spaces.
C18_ExtractReturnsStatedTokens ==
    LET tokens == re_split(file_scene)
        marks == {i \in 1..Len(tokens) : IsSxxEyyToken(tokens[i])}
        first == CHOOSE i \in marks : \A j \in marks : i <= j
        TitleCase(w) ==
            /\ w # ""
            /\ Char(w, 1) \in UpperChars
            /\ \A i \in 2..Len(w) : Char(w, i) \in LowerChars
        RECURSIVE stated(_)
        stated(ts) ==
            IF ts = <<>> \/ IsEndMarker(Head(ts)) THEN <<>>
            ELSE (IF TitleCase(Head(ts)) \/ str_isdigit(Head(ts)) THEN <<Head(ts)>> ELSE <<>>)
                 \o stated(Tail(ts))
    IN  (cleaned # <<>> /\ marks # {})
            => cleaned[1] = str_join(stated(SubSeq(tokens, first + 1, Len(tokens))))

\* C24: the mismatch counter of a key never exceeds MISMATCH_THRESHOLD, also
\* when several invocations of the admission filter for the key overlap.
C24_CounterNeverExceedsThreshold ==
    get_count(mismatch_tracking) <= FILTER_MISMATCH_THRESHOLD

\* C26: no call of grab_best_nzb deletes the episode's current file and returns
\* without posting a release to release/push.
C26_DeleteOnlyWithPush == (grab.done /\ grab.deleted) => Len(grab.pushed) >= 1

\* C25: when a manual override commits while an evaluation of the identity is
\* past its override check, then once both have finished the identity carries
\* `override` and `matched`, not `problematic-episode`, and its stored
\* confidence is 1.0.  Evaluations and overrides being all that acts, `override`
\* is present exactly when an override has committed.
C25_OverrideSurvivesEvaluation ==
    (OVERRIDE \in tags /\ \A a \in Analyzers : pc[a] \in Returned)
        => /\ MATCHED \in tags
           /\ PROBLEMATIC \notin tags
           /\ episode.confidence = OVERRIDE_CONFIDENCE

\* C27: after completed evaluations and manual overrides that do not overlap,
\* for an identity that started untagged, `matched` is present iff the stored
\* confidence is at least 0.5 and `problematic-episode` iff it is below.
C27_ConfidenceAndTagsAgree ==
    (episode.exists /\ \A a \in Analyzers : pc[a] \in Returned)
        => /\ MATCHED \in tags <=> episode.confidence >= MATCH_CONFIDENCE
           /\ PROBLEMATIC \in tags <=> episode.confidence < MATCH_CONFIDENCE

\* An evaluation scored below the boundary, an override followed, and a later
\* evaluation was skipped.
C27_Witness ==
    /\ \A a \in Analyzers : pc[a] \in Returned
    /\ \E a \in Analyzers : pc[a] = "skipped"
    /\ \E a \in Analyzers : pc[a] = "done"
    /\ episode.confidence = OVERRIDE_CONFIDENCE
    /\ tags = {MATCHED, OVERRIDE}

\* C28: a job's status only moves queued -> running -> done or
\* queued -> running -> error, `done` and `error` never change again, and `done`
\* is set only after the analyzer subprocess exited with return code 0.
C28_StatusTransitions ==
    [][/\ job'.status # job.status
            => \/ job.status = "queued" /\ job'.status = "running"
               \/ job.status = "running" /\ job'.status \in {"done", "error"}
       /\ (job'.status = "done" /\ job.status # "done") => worker.rc = "zero"
       /\ job.status \in {"done", "error"} => worker.pc = "end"]_vars

\* A job is done.
C28_Witness == job.status = "done" /\ worker.rc = "zero" /\ worker.pc = "end"

\* C29: every started job eventually reaches status `done` or `error`.
C29_JobTerminates == <>(job.status \in {"done", "error"})

\* A replace job polled Sonarr until the timeout without a find and is done.
C29_Witness ==
    /\ job.status \in {"done", "error"}
    /\ jobenv.sonarr
    /\ jobenv.timeout > 0
    /\ worker.elapsed >= jobenv.timeout
    /\ ~worker.found

\* C30: for every positive SONARR_IMPORT_TIMEOUT a job's progress stays within
\* 0..100, never decreases, and is 100 whenever the status is `done`.
C30_ProgressBoundedMonotone ==
    [][~(jobenv.type = "replace" /\ jobenv.sonarr /\ jobenv.valid /\ jobenv.timeout <= 0)
         => /\ job'.progress \in 0..100
            /\ job'.progress >= job.progress
            /\ (job'.status = "done" => job'.progress = 100)]_vars

\* C23: with the default thresholds a run of consecutive mismatches of one
\* identity, with no match in between, eventually makes the checker tag the
\* episode and call grab_best_nzb.
C23_MismatchRunEscalates == <>(special_tag /\ grabs > 0)

\* C21: a row the analyzer wrote for an episode that Sonarr still reports with a
\* file is never deleted by cleanup_deleted, whatever the series title.
C21_LiveRowsKept ==
    (cleanup_run.done /\ cleanup_run.series_fetched /\ cleanup_run.eps_failed = {})
        => \A s \in SeriesIds :
             ( /\ library[s].listed
               /\ library[s].hasFile
               /\ analyzer_key(library[s].title, LibraryEpisode) \in cleanup_run.before )
                 => analyzer_key(library[s].title, LibraryEpisode) \in db_keys

\* C22: a series whose episodes could not be fetched loses no row in this
\* cleanup run, and a run that could not fetch the series list deletes nothing.
C22_FailedFetchDeletesNothing ==
    cleanup_run.done
        => /\ ~cleanup_run.series_fetched => db_keys = cleanup_run.before
           /\ \A s \in cleanup_run.eps_failed :
                analyzer_key(library[s].title, LibraryEpisode) \in cleanup_run.before
                  => analyzer_key(library[s].title, LibraryEpisode) \in db_keys

====
